---- MODULE Spec2Model ----
(***************************************************************************)
(* Session bridging, upstream proxy and circuit breaker of the BFF.        *)
(*                                                                         *)
(* Time is Date.now() in milliseconds.  The clock advances by one          *)
(* millisecond or by one whole period (the session lifetime on the session *)
(* side, resetTimeout on the breaker side), so that the instants just      *)
(* before, at and just after every deadline are all visited.               *)
(*                                                                         *)
(* A request handler is one action per stretch of code between two awaits  *)
(* on outside I/O (the upstream HTTP call of login, the forwarding of a    *)
(* proxied request).                                                       *)
(***************************************************************************)
EXTENDS Integers, FiniteSets, Sequences, TLC

VARIABLES
    now,         \* Date.now(), milliseconds
    networked,   \* TRUE: getRedis() is the networked store; FALSE: the memory fallback
    session,     \* the identity (express) session of each subject's browser
    store,       \* the session store, key quentry_session:<subject id>
    inflight,    \* requests suspended on outside I/O
    loggedIn,    \* history: the subjects for which a login has stored a session
    last,        \* history: the last operation and what it answered
    cb,          \* circuitBreakers.get(name): failures, nextAttempt, state
    threshold,   \* options.threshold of the breaker
    resetTimeout,\* options.resetTimeout of the breaker, milliseconds
    run,         \* history: n failures recorded on the new breaker and nothing else
                 \* (-1 once anything else was recorded or reset), the last one at time at
    calls,       \* calls admitted by the breaker's wrappers: pending, not yet recorded;
                 \* trials (history), admitted on the HALF_OPEN breaker with no outcome
                 \* recorded since
    app          \* Application: phase starting or running, whether the process lives,
                 \* and (history) whether initializeRedis failed to reach the store

vars == <<now, networked, session, store, inflight, loggedIn, last,
          cb, threshold, resetTimeout, run, calls, app>>

sessVars == <<networked, session, store, inflight, loggedIn, app>>
cbVars == <<cb, threshold, resetTimeout, run, calls>>

-----------------------------------------------------------------------------
(* Bounds and the values requests are drawn from *)

Subjects == {"u1", "u2"}
\* the subjects whose browsers send requests under Spec (all of them under SpecIso)
Users == {"u1"}
Tokens == {"EU_a", "EU_b"}
NoToken == ""

\* clock advances (of either size) a behaviour may make
MaxAdvance == 3
\* requests that may be suspended on outside I/O at once
MaxInFlight == 2
\* largest failure threshold a breaker is created with
MaxThreshold == 3
\* failures a breaker counts before the model stops recording more
MaxFailures == 4
\* calls a breaker's wrappers may have admitted and not yet recorded
MaxCalls == 2

\* lifetimes (seconds) the identity provider gives an access token
IdLifetimes == {7200}
\* resetTimeout values a breaker is created with (the default is 30000)
ResetTimeouts == {20000, 30000}

-----------------------------------------------------------------------------
(* Program constants *)

\* expires: Date.now() + 3600 * 1000
SESSION_TTL_MS == 3600 * 1000
\* redis.set(key, value, 3600)
STORE_TTL_S == 3600
\* tokenExpiresAt - 300 <= now
REFRESH_LOOKAHEAD_S == 300

Null == [null |-> TRUE]
NoSession == [user |-> FALSE]

-----------------------------------------------------------------------------
(* Session store *)

\* mutant: a write over an entry keeps the token that was there
MemSetMerge(st, key, value, ttl, t) ==
    [st EXCEPT ![key] =
        [value |-> IF st[key] = [null |-> TRUE] THEN value
                   ELSE [value EXCEPT !.token = st[key].value.token],
         expiry |-> IF ttl # 0 THEN t + ttl * 1000 ELSE -1]]

\* memoryStore.set(key, {value, expiry}) with expiry = ttl ? now + ttl*1000 : null
MemSet(st, key, value, ttl, t) ==
    [st EXCEPT ![key] = [value |-> value,
                         expiry |-> IF ttl # 0 THEN t + ttl * 1000 ELSE -1]]

\* entry is expired: item.expiry !== null && item.expiry < Date.now()
MemExpired(item, t) == item.expiry # -1 /\ item.expiry < t

\* get: the value or Null; an expired entry is deleted by the read
MemGet(st, key, t) ==
    IF st[key] = Null THEN [value |-> Null, store |-> st]
    ELSE IF MemExpired(st[key], t)
         THEN [value |-> Null, store |-> [st EXCEPT ![key] = Null]]
         ELSE [value |-> st[key].value, store |-> st]

MemDel(st, key) == [st EXCEPT ![key] = Null]

\* the store getRedis() returns.  The networked store keeps values under the
\* TTL of SETEX, modelled by the same expiry record; a networked get or del
\* that fails is swallowed (null, no-op), a networked set that fails throws.
StoreGet(st, key, t, fail) ==
    IF fail THEN [value |-> Null, store |-> st] ELSE MemGet(st, key, t)

StoreDel(st, key, fail) == IF fail THEN st ELSE MemDel(st, key)

\* mutant: a failed write is logged and swallowed like a failed delete
StoreSetSilent(st, key, value, ttl, t, fail) ==
    IF fail THEN [threw |-> FALSE, store |-> st]
    ELSE [threw |-> FALSE, store |-> MemSet(st, key, value, ttl, t)]

StoreSet(st, key, value, ttl, t, fail) ==
    IF fail THEN [threw |-> TRUE, store |-> st]
    ELSE [threw |-> FALSE, store |-> MemSet(st, key, value, ttl, t)]

\* whether a failing get, a failing del reaches the caller as an exception:
\* both catch, log and return
getThrows(fail) == FALSE
delThrows(fail) == FALSE

\* the failures a store call can meet: none with the memory fallback
Fails == IF networked THEN BOOLEAN ELSE {FALSE}

\* mutant: one key for every subject
SessionKeyShared(s) == "u1"

\* `${REDIS_KEY_PREFIX}${session.user.id}`
SessionKey(s) == s

-----------------------------------------------------------------------------
(* Identity session and the token-refresh middleware *)

NowS(t) == t \div 1000

\* mutant: a failed refresh answers 401 and leaves the session as it is
ensureValidTokenKeeps(sess, t, refreshOk, lifetime) ==
    IF ~sess.user
    THEN [next |-> FALSE, status |-> 401, session |-> sess, refreshes |-> 0]
    ELSE IF (sess.expiresAt = 0 \/ sess.expiresAt - REFRESH_LOOKAHEAD_S <= NowS(t))
            /\ sess.refreshToken
         THEN IF refreshOk
              THEN [next |-> TRUE, status |-> 0,
                    session |-> [sess EXCEPT !.expiresAt = NowS(t) + lifetime],
                    refreshes |-> 1]
              ELSE [next |-> FALSE, status |-> 401, session |-> sess, refreshes |-> 1]
         ELSE [next |-> TRUE, status |-> 0, session |-> sess, refreshes |-> 0]

\* ensureValidToken: 401 without an access token; a token that is expired or
\* expires within the lookahead is refreshed if a refresh token is held, and a
\* failed refresh destroys the session; otherwise the request goes on.
\* refreshOk and lifetime are the identity provider's answer to the refresh.
\* refreshes counts the calls of keycloak.refreshToken.
ensureValidToken(sess, t, refreshOk, lifetime) ==
    IF ~sess.user
    THEN [next |-> FALSE, status |-> 401, session |-> sess, refreshes |-> 0]
    ELSE LET shouldRefresh == sess.expiresAt = 0
                              \/ sess.expiresAt - REFRESH_LOOKAHEAD_S <= NowS(t)
         IN IF shouldRefresh /\ sess.refreshToken
            THEN IF refreshOk
                 THEN [next |-> TRUE, status |-> 0,
                       session |-> [sess EXCEPT !.expiresAt = NowS(t) + lifetime],
                       refreshes |-> 1]
                 ELSE [next |-> FALSE, status |-> 401, session |-> NoSession,
                       refreshes |-> 1]
            ELSE [next |-> TRUE, status |-> 0, session |-> sess, refreshes |-> 0]

\* the identity provider's possible answers to this request's refresh: it is
\* asked only when ensureValidToken attempts one
RefreshAnswers(sess, t) ==
    IF sess.user /\ sess.refreshToken
       /\ (sess.expiresAt = 0 \/ sess.expiresAt - REFRESH_LOOKAHEAD_S <= NowS(t))
    THEN BOOLEAN ELSE {TRUE}

\* GET /auth/callback, after the code exchange: user and tokens in the session;
\* the access token's lifetime is one of L
CallbackWith(s, L) ==
    /\ session[s] = NoSession
    /\ \E rt \in BOOLEAN, lt \in L :
         session' = [session EXCEPT ![s] =
                        [user |-> TRUE, refreshToken |-> rt,
                         expiresAt |-> NowS(now) + lt]]
    /\ last' = [op |-> "callback", subj |-> s]
    /\ UNCHANGED <<now, networked, store, inflight, loggedIn, app, cbVars>>

Callback(s) == CallbackWith(s, IdLifetimes)

\* the values generateRandomState() gives, and the state query parameter of a
\* callback: one of them or none
OAuthStates == {"st1", "st2"}

NoState == ""

\* req.session.oauth_state, NoState when the session holds none
oauth_state(sess) == IF "oauth_state" \in DOMAIN sess THEN sess.oauth_state ELSE NoState

\* GET /auth/login: a fresh state is put in the session
AuthLogin(s) ==
    /\ \E st \in OAuthStates :
         session' = [session EXCEPT ![s] =
                        [f \in DOMAIN session[s] \cup {"oauth_state"} |->
                            IF f = "oauth_state" THEN st ELSE session[s][f]]]
    /\ last' = [op |-> "authLogin", subj |-> s]
    /\ UNCHANGED <<now, networked, store, inflight, loggedIn, app, cbVars>>

\* the state test of the callback: it fails only when both states are there
\* and differ
stateMismatch(state, sessionState) ==
    state # NoState /\ sessionState # NoState /\ state # sessionState

\* GET /auth/callback with its query (error, state, code) and the outcome of
\* the code exchange: the redirect, and user and tokens in the session when
\* every test passes
AuthCallback(s) ==
    /\ \E error \in BOOLEAN, state \in OAuthStates \cup {NoState}, code \in BOOLEAN,
          grant \in BOOLEAN, rt \in BOOLEAN, lt \in IdLifetimes :
         LET sessionState == oauth_state(session[s])
             answer(redirect, established) ==
                 [op |-> "authCallback", subj |-> s, state |-> state,
                  sessionState |-> sessionState, code |-> code,
                  redirect |-> redirect, established |-> established]
         IN IF error
            THEN last' = answer("oauth_error", FALSE) /\ UNCHANGED session
            ELSE IF stateMismatch(state, sessionState)
            THEN last' = answer("invalid_state", FALSE) /\ UNCHANGED session
            ELSE IF ~code
            THEN last' = answer("missing_code", FALSE) /\ UNCHANGED session
            ELSE IF ~grant
            THEN last' = answer("callback_error", FALSE) /\ UNCHANGED session
            ELSE /\ session' = [session EXCEPT ![s] =
                                   [user |-> TRUE, refreshToken |-> rt,
                                    expiresAt |-> NowS(now) + lt]]
                 /\ last' = answer("status", TRUE)
    /\ UNCHANGED <<now, networked, store, inflight, loggedIn, app, cbVars>>

\* what POST /auth/logout leaves of the subject's sessions: req.session.destroy()
AuthLogoutEffect(sess, st, s) == [session |-> [sess EXCEPT ![s] = NoSession], store |-> st]

\* POST /auth/logout
AuthLogout(s) ==
    /\ session[s] # NoSession
    /\ LET e == AuthLogoutEffect(session, store, s)
       IN /\ session' = e.session
          /\ store' = e.store
    /\ last' = [op |-> "authLogout", subj |-> s, status |-> 200]
    /\ UNCHANGED <<now, networked, inflight, loggedIn, app, cbVars>>

\* lifetimes (seconds) about the refresh lookahead
NearLifetimes == {299, 300, 301}

\* GET /auth/me: ensureValidToken, then the handler, which answers the user
Protected(s) ==
    /\ \E rf \in RefreshAnswers(session[s], now), lt \in NearLifetimes :
         LET a == ensureValidToken(session[s], now, rf, lt)
         IN /\ session' = [session EXCEPT ![s] = a.session]
            /\ last' = [op |-> "protected", subj |-> s, pre |-> session[s], at |-> now,
                        refreshOk |-> rf, ran |-> a.next, refreshes |-> a.refreshes,
                        status |-> IF a.next THEN 200 ELSE a.status]
    /\ UNCHANGED <<now, networked, store, inflight, loggedIn, app, cbVars>>

\* ensureValidToken up to its await of keycloak.refreshToken: the request
\* holds the session it was given when it arrived
RefreshBegin(s) ==
    /\ Cardinality(inflight) < MaxInFlight
    /\ session[s].user /\ session[s].refreshToken
    /\ \/ session[s].expiresAt = 0
       \/ session[s].expiresAt - REFRESH_LOOKAHEAD_S <= NowS(now)
    /\ inflight' = inflight \cup {[op |-> "refreshing", subj |-> s, sess |-> session[s]]}
    /\ last' = [op |-> "refreshBegin", subj |-> s]
    /\ UNCHANGED <<now, networked, session, store, loggedIn, app, cbVars>>

\* ensureValidToken from the identity provider's answer on: the new tokens go
\* into the session the request holds and req.session.save() writes it under
\* its id; a failed refresh destroys the session
RefreshEnd(r) ==
    /\ r \in inflight /\ r.op = "refreshing"
    /\ inflight' = inflight \ {r}
    /\ \E rf \in BOOLEAN, lt \in NearLifetimes :
         LET a == ensureValidToken(r.sess, now, rf, lt)
         IN /\ session' = [session EXCEPT ![r.subj] = a.session]
            /\ last' = [op |-> "refreshEnd", subj |-> r.subj, pre |-> session[r.subj],
                        held |-> r.sess, refreshOk |-> rf,
                        status |-> IF a.next THEN 200 ELSE a.status]
    /\ UNCHANGED <<now, networked, store, loggedIn, app, cbVars>>

\* POST /auth/refresh: 401 without a refresh token; the exchange; new tokens in
\* the session, or on failure the session destroyed and 401
refresh(sess, t, refreshOk, lifetime) ==
    IF ~sess.user \/ ~sess.refreshToken
    THEN [status |-> 401, session |-> sess, refreshes |-> 0]
    ELSE IF refreshOk
         THEN [status |-> 200, session |-> [sess EXCEPT !.expiresAt = NowS(t) + lifetime],
               refreshes |-> 1]
         ELSE [status |-> 401, session |-> NoSession, refreshes |-> 1]

AuthRefresh(s) ==
    /\ \E rf \in BOOLEAN, lt \in NearLifetimes :
         LET a == refresh(session[s], now, rf, lt)
         IN /\ session' = [session EXCEPT ![s] = a.session]
            /\ last' = [op |-> "refresh", subj |-> s, pre |-> session[s], at |-> now,
                        refreshOk |-> (rf \/ a.refreshes = 0), ran |-> FALSE,
                        refreshes |-> a.refreshes, status |-> a.status]
    /\ UNCHANGED <<now, networked, store, inflight, loggedIn, app, cbVars>>

\* tokens.expiresAt - now, whole seconds
timeUntilExpiry(sess, t) == sess.expiresAt - NowS(t)

\* tokenStatus of GET /auth/status
tokenStatus(sess, t) ==
    IF ~sess.user \/ sess.expiresAt = 0 THEN "no_token"
    ELSE IF timeUntilExpiry(sess, t) <= 0 THEN "expired"
    ELSE IF timeUntilExpiry(sess, t) <= 300 THEN "expiring_soon"
    ELSE "valid"

\* isTokenExpired(tokenSet): due for refresh, with the five-minute buffer
isTokenExpired(expiresAt, t) ==
    IF expiresAt = 0 THEN FALSE ELSE expiresAt - 300 <= NowS(t)

\* GET /auth/status
AuthStatus(s) ==
    /\ last' = [op |-> "authStatus", subj |-> s, pre |-> session[s], at |-> now,
                tokenStatus |-> tokenStatus(session[s], now),
                due |-> (session[s].user /\ isTokenExpired(session[s].expiresAt, now))]
    /\ UNCHANGED <<now, sessVars, cbVars>>

-----------------------------------------------------------------------------
(* Upstream authentication: POST /quentry/login *)

TokOpt == Tokens \cup {NoToken}

\* a 2xx answer of the upstream authentication endpoint: data is the nested
\* payload or Null, token the top-level token
Bodies == [data : {Null} \cup [token : TokOpt], token : TokOpt]

\* the upstream's answers: a 2xx body, an error status, or no answer at all
Responses == [kind : {"ok"}, body : Bodies, status : {200}]
             \cup [kind : {"error"}, body : {[data |-> Null, token |-> NoToken]},
                   status : {401, 500}]
             \cup [kind : {"transport"}, body : {[data |-> Null, token |-> NoToken]},
                   status : {0}]

\* mutant: expires is the time of the login
quentrySessionNoLifetime(payload, t) == [token |-> payload.token, expires |-> t]

\* the session record login stores: {...responseData, expires: now + 3600*1000}
quentrySession(payload, t) == [token |-> payload.token, expires |-> t + SESSION_TTL_MS]

\* mutant: only a request with neither username nor password is turned away
credentialsMissingBoth(username, password) == ~username /\ ~password

\* !username || !password
credentialsMissing(username, password) == ~username \/ ~password

\* the logins of subject s suspended on the upstream call
LoginsInFlight(s) == {q \in inflight : q.op = "login" /\ q.subj = s}

\* a new login of subject s takes its place behind those already in flight
FreeId(s) == Cardinality(LoginsInFlight(s)) + 1

\* the requests in flight once login r has been answered
Answered(r) ==
    {IF q \in LoginsInFlight(r.subj) /\ q.id > r.id THEN [q EXCEPT !.id = @ - 1] ELSE q
       : q \in inflight \ {r}}

\* login up to the upstream call: 401 without identity, 400 without credentials
LoginSend(s) ==
    /\ Cardinality(inflight) < MaxInFlight
    /\ \E rf \in RefreshAnswers(session[s], now), lt \in IdLifetimes,
          username \in BOOLEAN, password \in BOOLEAN :
         LET a == ensureValidToken(session[s], now, rf, lt)
             \* the answer, and the credentials as far as the handler has read them
             answer(status) ==
                 [op |-> "login", stage |-> "send", subj |-> s, status |-> status,
                  hadIdentity |-> session[s].user, reached |-> a.next,
                  username |-> (status # 401 /\ username),
                  password |-> (status # 401 /\ password),
                  preStore |-> store, preInflight |-> inflight,
                  preSession |-> session]
         IN /\ session' = [session EXCEPT ![s] = a.session]
            /\ IF ~a.next
               THEN /\ last' = answer(a.status)
                    /\ UNCHANGED inflight
               ELSE IF ~a.session.user
               THEN /\ last' = answer(401)
                    /\ UNCHANGED inflight
               ELSE IF credentialsMissing(username, password)
               THEN /\ last' = answer(400)
                    /\ UNCHANGED inflight
               ELSE /\ inflight' =
                         inflight \cup {[op |-> "login", subj |-> s, id |-> FreeId(s)]}
                    /\ last' = [answer(0) EXCEPT !.op = "loginSend"]
    /\ UNCHANGED <<now, networked, store, loggedIn, app, cbVars>>

\* what the client is told of the failure: the error of the handler's own 401,
\* and of the catch, which passes on the upstream's status and message
NO_TOKEN_ERROR == "Invalid credentials - no token returned"
CATCH_ERROR == "Authentication failed"

\* mutant: the catch around the write is not there and success is answered
loginAnswerSuccess(threw) == 200

\* the status after redis.set: success, or the catch's error.response?.status || 500
\* for an error that carries no response
loginAnswer(threw) == IF threw THEN 500 ELSE 200

\* mutant: a top-level token is taken before the nested payload is looked at
extractPayloadTopFirst(body) ==
    IF body.token # NoToken THEN body
    ELSE IF body.data # Null THEN body.data ELSE body

\* mutant: the token is looked for in the body only
extractPayloadBody(body) == body

\* response.data?.data || response.data
extractPayload(body) == IF body.data # Null THEN body.data ELSE body

\* login from the upstream's answer on; rival (history): another login of the
\* subject is in flight, or was when the previous step answered one
LoginRecv(r) ==
    /\ r \in inflight /\ r.op = "login"
    /\ inflight' = Answered(r)
    /\ \E resp \in Responses, fail \in Fails :
         LET answer(status, error, message, setFailed) ==
                 [op |-> "login", stage |-> "recv", subj |-> r.subj, status |-> status,
                  kind |-> resp.kind, upstatus |-> resp.status, body |-> resp.body,
                  error |-> error, message |-> message, setFailed |-> setFailed,
                  had |-> store[SessionKey(r.subj)], token |-> NoToken,
                  rival |-> \/ LoginsInFlight(r.subj) # {r}
                            \/ /\ last.op = "login" /\ last.stage = "recv"
                               /\ last.subj = r.subj /\ last.rival,
                  at |-> now]
         IN IF resp.kind # "ok"
            THEN \* axios throws: the inner catch answers error.response?.status || 500
                 /\ last' = answer(IF resp.status # 0 THEN resp.status ELSE 500,
                                   CATCH_ERROR, resp.kind, FALSE)
                 /\ UNCHANGED <<store, loggedIn>>
            ELSE LET payload == extractPayload(resp.body)
                 IN IF payload.token = NoToken
                    THEN /\ last' = answer(401, NO_TOKEN_ERROR, "", FALSE)
                         /\ UNCHANGED <<store, loggedIn>>
                    ELSE LET w == StoreSet(store, SessionKey(r.subj),
                                           quentrySession(payload, now),
                                           STORE_TTL_S, now, fail)
                             status == loginAnswer(w.threw)
                         IN /\ store' = w.store
                            /\ IF status # 200
                               THEN /\ last' = answer(status, CATCH_ERROR, "store", fail)
                                    /\ UNCHANGED loggedIn
                               ELSE /\ last' = [answer(200, "", "", fail)
                                                  EXCEPT !.token = payload.token]
                                    /\ loggedIn' = loggedIn \cup {r.subj}
    /\ UNCHANGED <<now, networked, session, app, cbVars>>

-----------------------------------------------------------------------------
(* POST /quentry/logout, GET /quentry/status *)

\* logout: deletes the subject's upstream session and answers success
QLogout(s) ==
    /\ \E rf \in RefreshAnswers(session[s], now), lt \in IdLifetimes, fail \in Fails :
         LET a == ensureValidToken(session[s], now, rf, lt)
         IN /\ session' = [session EXCEPT ![s] = a.session]
            /\ IF ~a.next
               THEN /\ last' = [op |-> "logout", subj |-> s, status |-> a.status,
                                had |-> store[SessionKey(s)], second |-> FALSE]
                    /\ UNCHANGED store
               ELSE /\ store' = StoreDel(store, SessionKey(s), fail)
                    /\ last' = [op |-> "logout", subj |-> s, status |-> 200,
                                had |-> store[SessionKey(s)],
                                second |-> (last.op = "logout" /\ last.subj = s
                                            /\ last.status = 200)]
    /\ UNCHANGED <<now, networked, inflight, loggedIn, app, cbVars>>

\* the read every reader makes: get, parse, compare expires with the clock, and
\* delete the record if it is past expires.  seen is what the reader reports.
ReadSession(st, key, t, getFail, delFail) ==
    LET g == StoreGet(st, key, t, getFail)
    IN IF g.value = Null
       THEN [seen |-> "Absent", token |-> NoToken, expires |-> 0, store |-> g.store]
       ELSE IF g.value.expires <= t
            THEN [seen |-> "Expired", token |-> NoToken, expires |-> g.value.expires,
                  store |-> StoreDel(g.store, key, delFail)]
            ELSE [seen |-> "Active", token |-> g.value.token,
                  expires |-> g.value.expires, store |-> g.store]

\* status: authenticated with expiresIn, or not authenticated and why
QStatus(s) ==
    /\ \E rf \in RefreshAnswers(session[s], now), lt \in IdLifetimes, gf \in Fails, df \in Fails :
         LET a == ensureValidToken(session[s], now, rf, lt)
         IN /\ session' = [session EXCEPT ![s] = a.session]
            /\ IF ~a.next
               THEN /\ last' = [op |-> "status", subj |-> s, status |-> a.status,
                                seen |-> "NoIdentity", had |-> store[SessionKey(s)],
                                getFailed |-> FALSE]
                    /\ UNCHANGED store
               ELSE LET rd == ReadSession(store, SessionKey(s), now, gf, df)
                    IN /\ store' = rd.store
                       /\ last' = [op |-> "status", subj |-> s, status |-> 200,
                                   seen |-> rd.seen, had |-> store[SessionKey(s)],
                                   getFailed |-> gf]
    /\ UNCHANGED <<now, networked, inflight, loggedIn, app, cbVars>>

\* status up to its await of redis.get: the answer when nothing or an Active
\* session is read; a session past expires leaves the handler before its
\* await of redis.del, holding what it read
StatusGet(s) ==
    /\ Cardinality(inflight) < MaxInFlight
    /\ \E rf \in RefreshAnswers(session[s], now), lt \in IdLifetimes, gf \in Fails :
         LET a == ensureValidToken(session[s], now, rf, lt)
             g == StoreGet(store, SessionKey(s), now, gf)
             answer(status, seen) ==
                 [op |-> "statusGet", subj |-> s, status |-> status, seen |-> seen,
                  had |-> store[SessionKey(s)], getFailed |-> gf]
         IN /\ session' = [session EXCEPT ![s] = a.session]
            /\ IF ~a.next
               THEN /\ last' = answer(a.status, "NoIdentity")
                    /\ UNCHANGED <<store, inflight>>
               ELSE /\ store' = g.store
                    /\ IF g.value = Null
                       THEN last' = answer(200, "Absent") /\ UNCHANGED inflight
                       ELSE IF g.value.expires <= now
                       THEN /\ inflight' = inflight \cup
                                  {[op |-> "cleanup", subj |-> s, read |-> g.value]}
                            /\ last' = answer(0, "Expired")
                       ELSE last' = answer(200, "Active") /\ UNCHANGED inflight
    /\ UNCHANGED <<now, networked, loggedIn, app, cbVars>>

\* status from its redis.del on: the key is deleted and the answer is
\* 'Quentry session expired'
StatusDel(r) ==
    /\ r \in inflight /\ r.op = "cleanup"
    /\ inflight' = inflight \ {r}
    /\ \E df \in Fails :
         /\ store' = StoreDel(store, SessionKey(r.subj), df)
         /\ last' = [op |-> "statusDel", subj |-> r.subj, status |-> 200,
                     seen |-> "Expired", read |-> r.read,
                     had |-> store[SessionKey(r.subj)], delFailed |-> df]
    /\ UNCHANGED <<now, networked, session, loggedIn, app, cbVars>>

-----------------------------------------------------------------------------
(* ANY /quentry/api/*: ensureQuentryAuth, then the proxy and its onProxyReq hook *)

\* whether a breaker in state c rejects at time t (isOpen() returns true)
breakerOpen(c, t) == c.state = "OPEN" /\ t <= c.nextAttempt

\* what the proxy sends upstream once the onProxyReq hook has looked the session
\* up: the hook sets the Authorization header on an Active session; on a missing
\* or expired one it answers 401 and returns, which leaves the outbound request
\* to go out as it is.  The hook is async and the proxy does not wait for it: if
\* the outbound request's headers have been flushed by the time the lookup has
\* finished (late), setHeader throws and the catch answers 500.
hookOutcome(rd, late) ==
    IF rd.seen = "Active"
    THEN IF late THEN [status |-> 500, sent |-> TRUE, auth |-> NoToken]
         ELSE [status |-> 200, sent |-> TRUE, auth |-> rd.token]
    ELSE [status |-> 401, sent |-> TRUE, auth |-> NoToken]

\* ensureQuentryAuth: 401 unless an Active session is read; then next(), and the
\* proxy middleware opens the outbound request
ProxyCheck(s) ==
    /\ Cardinality(inflight) < MaxInFlight
    /\ \E rf \in RefreshAnswers(session[s], now), lt \in IdLifetimes, gf \in Fails, df \in Fails :
         LET a == ensureValidToken(session[s], now, rf, lt)
         IN /\ session' = [session EXCEPT ![s] = a.session]
            /\ IF ~a.next
               THEN /\ last' = [op |-> "proxy", subj |-> s, status |-> a.status,
                                seen |-> "NoIdentity", sent |-> FALSE, auth |-> NoToken,
                                had |-> store[SessionKey(s)], getFailed |-> FALSE,
                                arrivedOpen |-> breakerOpen(cb, now),
                                upstream |-> "none", cbPre |-> cb, at |-> now]
                    /\ UNCHANGED <<store, inflight>>
               ELSE LET rd == ReadSession(store, SessionKey(s), now, gf, df)
                    IN /\ store' = rd.store
                       /\ IF rd.seen # "Active"
                          THEN /\ last' = [op |-> "proxy", subj |-> s, status |-> 401,
                                           seen |-> rd.seen, sent |-> FALSE,
                                           auth |-> NoToken,
                                           had |-> store[SessionKey(s)],
                                           getFailed |-> gf,
                                           arrivedOpen |-> breakerOpen(cb, now),
                                           upstream |-> "none", cbPre |-> cb,
                                           at |-> now]
                               /\ UNCHANGED inflight
                          ELSE /\ inflight' = inflight \cup
                                     {[op |-> "proxy", subj |-> s,
                                       open |-> breakerOpen(cb, now)]}
                               /\ last' = [op |-> "proxyCheck", subj |-> s,
                                           seen |-> rd.seen,
                                           had |-> store[SessionKey(s)]]
    /\ UNCHANGED <<now, networked, loggedIn, app, cbVars>>

\* what comes back for a request that was sent: a response (onProxyRes, which
\* logs it) or a transport error (onError, which logs it and answers 500)
Upstream == {"2xx", "4xx", "5xx", "transport"}

\* the onProxyReq hook resumes after its own session lookup, the outbound
\* request leaves, and onProxyRes or onError sees what comes back
ProxyHook(r) ==
    /\ r \in inflight /\ r.op = "proxy"
    /\ inflight' = inflight \ {r}
    /\ \E gf \in Fails, df \in Fails, up \in Upstream, late \in BOOLEAN :
         LET rd == ReadSession(store, SessionKey(r.subj), now, gf, df)
             h == hookOutcome(rd, late)
         IN /\ store' = rd.store
            /\ last' = [op |-> "proxy", subj |-> r.subj, status |-> h.status,
                        seen |-> rd.seen, sent |-> h.sent, auth |-> h.auth,
                        cookie |-> (h.auth # NoToken),
                        had |-> store[SessionKey(r.subj)], getFailed |-> gf,
                        arrivedOpen |-> r.open,
                        upstream |-> IF h.sent THEN up ELSE "none",
                        cbPre |-> cb, at |-> now]
    /\ UNCHANGED <<now, networked, session, loggedIn, app, cbVars>>

-----------------------------------------------------------------------------
(* The clock *)

\* advances made so far, the clock being a sum of single milliseconds and periods
Advances(t, period) == (t \div period) + (t % period)

Tick(steps) ==
    /\ \E d \in steps :
         /\ Advances(now + d, SESSION_TTL_MS) <= MaxAdvance
         /\ now' = now + d
    /\ last' = [op |-> "tick"]
    /\ UNCHANGED <<sessVars, cbVars>>

\* the clock of the identity side: a second, or the refresh lookahead
TickId ==
    /\ \E d \in {1, REFRESH_LOOKAHEAD_S} :
         /\ Advances(NowS(now) + d, REFRESH_LOOKAHEAD_S) <= MaxAdvance
         /\ now' = now + d * 1000
    /\ last' = [op |-> "tick"]
    /\ UNCHANGED <<sessVars, cbVars>>

-----------------------------------------------------------------------------
(* Specification of the session side *)

NewBreaker == [failures |-> 0, nextAttempt |-> 0, state |-> "CLOSED"]

\* no call is pending in a wrapper of the breaker
NoCalls == [fn |-> 0, mw |-> 0, trials |-> 0]

\* the application after initialize() has completed
Running == [phase |-> "running", alive |-> TRUE, unreached |-> FALSE]

Init ==
    /\ now = 0
    /\ networked \in BOOLEAN
    /\ session = [s \in Subjects |-> NoSession]
    /\ store = [s \in Subjects |-> Null]
    /\ inflight = {}
    /\ loggedIn = {}
    /\ last = [op |-> "init"]
    /\ cb = NewBreaker
    /\ threshold = 5
    /\ resetTimeout = 30000
    /\ run = [n |-> 0, at |-> 0]
    /\ calls = NoCalls
    /\ app = Running

\* the requests of the subjects in U
Requests(U) ==
    \/ \E s \in U : Callback(s)
    \/ \E s \in U : AuthLogout(s)
    \/ \E s \in U : LoginSend(s)
    \/ \E r \in inflight : LoginRecv(r)
    \/ \E s \in U : QLogout(s)
    \/ \E s \in U : QStatus(s)
    \/ \E s \in U : ProxyCheck(s)
    \/ \E r \in inflight : ProxyHook(r)

Next == Requests(Users) \/ Tick({1, SESSION_TTL_MS})

Spec == Init /\ [][Next]_vars

\* several subjects, the clock advancing by three periods at once, the memory store
NextIso == Requests(Subjects) \/ Tick({3 * SESSION_TTL_MS})

InitIso == Init /\ networked = FALSE

SpecIso == InitIso /\ [][NextIso]_vars

\* logins beside a status whose read and delete are the two awaits they are in
\* the code, on the networked store, where each await is a round trip
NextRace ==
    \/ \E s \in Users : Callback(s)
    \/ \E s \in Users : LoginSend(s)
    \/ \E r \in inflight : LoginRecv(r)
    \/ \E s \in Users : StatusGet(s)
    \/ \E r \in inflight : StatusDel(r)
    \/ Tick({1, SESSION_TTL_MS})

InitRace == Init /\ networked = TRUE

SpecRace == InitRace /\ [][NextRace]_vars

\* the outbound calls alone, with a clock that keeps running: the upstream's
\* answers (LoginRecv, ProxyHook) come when the upstream sends them, if ever;
\* neither axios.post nor the proxy is given a timeout, so no step of the
\* program ends a call the upstream leaves unanswered
NextLive ==
    \/ \E s \in Users : Callback(s)
    \/ \E s \in Users : LoginSend(s)
    \/ \E r \in inflight : LoginRecv(r)
    \/ \E s \in Users : ProxyCheck(s)
    \/ \E r \in inflight : ProxyHook(r)
    \/ Tick({SESSION_TTL_MS})

SpecLive == InitIso /\ [][NextLive]_vars /\ WF_vars(Tick({SESSION_TTL_MS}))

\* logout beside a token refresh that waits for the identity provider
NextIdRace ==
    \/ \E s \in Users : CallbackWith(s, NearLifetimes)
    \/ \E s \in Users : AuthLogout(s)
    \/ \E s \in Users : RefreshBegin(s)
    \/ \E r \in inflight : RefreshEnd(r)
    \/ TickId

SpecIdRace == InitIso /\ [][NextIdRace]_vars

\* the OAuth login: initiation, callback and logout
NextOAuth ==
    \/ \E s \in Users : AuthLogin(s)
    \/ \E s \in Users : AuthCallback(s)
    \/ \E s \in Users : AuthLogout(s)
    \/ TickId

SpecOAuth == InitIso /\ [][NextOAuth]_vars

\* the identity session alone: login callback, logout, a protected route, the
\* refresh and status endpoints, with token lifetimes about the lookahead
NextId ==
    \/ \E s \in Users : CallbackWith(s, NearLifetimes)
    \/ \E s \in Users : AuthLogout(s)
    \/ \E s \in Users : Protected(s)
    \/ \E s \in Users : AuthRefresh(s)
    \/ \E s \in Users : AuthStatus(s)
    \/ TickId

SpecId == InitIso /\ [][NextId]_vars

-----------------------------------------------------------------------------
(* Start of the application, and the store as its callers use it *)

Envs == {"development", "staging", "production"}
StoreCfgs == {"redis", "memory"}

\* how the attempt of initializeRedis goes: REDIS_ENABLED off, new Redis(...)
\* throwing, connect() or ping() failing, or the connection made
Attempts == {"disabled", "clientError", "unreachable", "connected"}

\* initializeRedis: whether it throws, and whether the module's `redis`, the
\* store getRedis() returns, is the networked one afterwards (it is assigned
\* only after connect() and ping() have succeeded)
initializeRedis(attempt, env, storeCfg) ==
    IF attempt = "connected" THEN [threw |-> FALSE, networked |-> TRUE]
    ELSE IF attempt \in {"disabled", "clientError"}
         THEN [threw |-> FALSE, networked |-> FALSE]
         ELSE [threw |-> ~(env = "development" \/ storeCfg = "memory"),
               networked |-> FALSE]

\* mutant: the error of initializeRedis ends the process
initializeExits(threw) == ~threw

\* Application.initialize around initializeRedis: an error is caught and
\* logged, and the process goes on
initializeCatches(threw) == TRUE

Initialize ==
    /\ app.phase = "starting"
    /\ \E attempt \in Attempts, env \in Envs, storeCfg \in StoreCfgs :
         LET r == initializeRedis(attempt, env, storeCfg)
         IN /\ networked' = r.networked
            /\ app' = [phase |-> "running", alive |-> initializeCatches(r.threw),
                       unreached |-> (attempt = "unreachable")]
            /\ last' = [op |-> "initialize", attempt |-> attempt, env |-> env,
                        storeCfg |-> storeCfg, threw |-> r.threw]
    /\ UNCHANGED <<now, session, store, inflight, loggedIn, cbVars>>

\* the values and TTLs callers store
StoreValues == {quentrySession([token |-> tok], 0) : tok \in Tokens}
StoreTtls == {0, STORE_TTL_S}

\* getRedis().get(key)
StoreOpGet(key) ==
    /\ app.phase = "running" /\ app.alive
    /\ \E fail \in Fails :
         LET g == StoreGet(store, key, now, fail)
         IN /\ store' = g.store
            /\ last' = [op |-> "get", key |-> key, fail |-> fail, value |-> g.value,
                        threw |-> getThrows(fail), had |-> store[key]]
    /\ UNCHANGED <<now, networked, session, inflight, loggedIn, app, cbVars>>

\* getRedis().set(key, value, ttl)
StoreOpSet(key) ==
    /\ app.phase = "running" /\ app.alive
    /\ \E fail \in Fails, value \in StoreValues, ttl \in StoreTtls :
         LET w == StoreSet(store, key, value, ttl, now, fail)
         IN /\ store' = w.store
            /\ last' = [op |-> "set", key |-> key, fail |-> fail, value |-> value,
                        threw |-> w.threw, had |-> store[key], ttl |-> ttl, at |-> now]
    /\ UNCHANGED <<now, networked, session, inflight, loggedIn, app, cbVars>>

\* getRedis().del(key)
StoreOpDel(key) ==
    /\ app.phase = "running" /\ app.alive
    /\ \E fail \in Fails :
         /\ store' = StoreDel(store, key, fail)
         /\ last' = [op |-> "del", key |-> key, fail |-> fail, value |-> Null,
                     threw |-> delThrows(fail), had |-> store[key]]
    /\ UNCHANGED <<now, networked, session, inflight, loggedIn, app, cbVars>>

\* before Application.initialize: `redis` is the memory store the module creates
InitBoot ==
    /\ now = 0
    /\ networked = FALSE
    /\ session = [s \in Subjects |-> NoSession]
    /\ store = [s \in Subjects |-> Null]
    /\ inflight = {}
    /\ loggedIn = {}
    /\ last = [op |-> "init"]
    /\ cb = NewBreaker
    /\ threshold = 5
    /\ resetTimeout = 30000
    /\ run = [n |-> 0, at |-> 0]
    /\ calls = NoCalls
    /\ app = [phase |-> "starting", alive |-> TRUE, unreached |-> FALSE]

NextStore ==
    \/ Initialize
    \/ \E key \in Subjects : StoreOpGet(key)
    \/ \E key \in Subjects : StoreOpSet(key)
    \/ \E key \in Subjects : StoreOpDel(key)
    \/ Tick({1, SESSION_TTL_MS})

SpecStore == InitBoot /\ [][NextStore]_vars

-----------------------------------------------------------------------------
(* Circuit breaker: SimpleCircuitBreaker over circuitBreakers.get(name) *)

\* CIRCUIT_BREAKER_RESET_TIMEOUT, the default of config.circuitBreaker.resetTimeout
CONFIG_RESET_TIMEOUT == 30000

\* mutant: the breaker stops rejecting at nextAttempt, not after it
isOpenResultEarly(c, t) ==
    IF c.state = "OPEN" /\ t >= c.nextAttempt THEN FALSE ELSE c.state = "OPEN"

\* isOpen(): the value returned
isOpenResult(c, t) ==
    IF c.state = "OPEN" /\ t > c.nextAttempt THEN FALSE ELSE c.state = "OPEN"

\* mutant: the check has no side effect
isOpenStateKept(c, t) == c

\* isOpen(): the breaker it leaves, HALF_OPEN once the clock has passed nextAttempt
isOpenState(c, t) ==
    IF c.state = "OPEN" /\ t > c.nextAttempt THEN [c EXCEPT !.state = "HALF_OPEN"] ELSE c

\* mutant: the breaker opens one failure late
recordFailureLate(c, t, thr, rt) ==
    LET newFailures == c.failures + 1
    IN IF newFailures > thr
       THEN [state |-> "OPEN", failures |-> newFailures, nextAttempt |-> t + rt]
       ELSE [c EXCEPT !.failures = newFailures]

\* mutant: a failure writes the counter from a value read before the other
\* failures were recorded
recordFailureLost(c, t, thr, rt) ==
    LET newFailures == 1
    IN IF newFailures >= thr
       THEN [state |-> "OPEN", failures |-> newFailures, nextAttempt |-> t + rt]
       ELSE [c EXCEPT !.failures = newFailures]

\* record(error): a failure counts up and opens the breaker at the threshold
recordFailure(c, t, thr, rt) ==
    LET newFailures == c.failures + 1
    IN IF newFailures >= thr
       THEN [state |-> "OPEN", failures |-> newFailures, nextAttempt |-> t + rt]
       ELSE [c EXCEPT !.failures = newFailures]

\* mutant: a success on a HALF_OPEN breaker closes it and keeps the counter
recordSuccessKeepsCount(c) ==
    IF c.state = "HALF_OPEN" THEN [c EXCEPT !.state = "CLOSED"]
    ELSE IF c.state = "CLOSED"
         THEN [c EXCEPT !.failures = IF c.failures - 1 > 0 THEN c.failures - 1 ELSE 0]
         ELSE c

\* mutant: a success closes an OPEN breaker as it closes a HALF_OPEN one
recordSuccessClosesOpen(c) ==
    IF c.state \in {"HALF_OPEN", "OPEN"} THEN [c EXCEPT !.state = "CLOSED", !.failures = 0]
    ELSE IF c.state = "CLOSED"
         THEN [c EXCEPT !.failures = IF c.failures - 1 > 0 THEN c.failures - 1 ELSE 0]
         ELSE c

\* mutant: a success counts a CLOSED breaker down without the floor at zero
recordSuccessBelowZero(c) ==
    IF c.state = "HALF_OPEN" THEN [c EXCEPT !.state = "CLOSED", !.failures = 0]
    ELSE IF c.state = "CLOSED"
         THEN [c EXCEPT !.failures = c.failures - 1]
         ELSE c

\* record(null): a success closes a HALF_OPEN breaker and counts a CLOSED one down
recordSuccess(c) ==
    IF c.state = "HALF_OPEN" THEN [c EXCEPT !.state = "CLOSED", !.failures = 0]
    ELSE IF c.state = "CLOSED"
         THEN [c EXCEPT !.failures = IF c.failures - 1 > 0 THEN c.failures - 1 ELSE 0]
         ELSE c

record(c, error, t, thr, rt) ==
    IF error THEN recordFailure(c, t, thr, rt) ELSE recordSuccess(c)

\* forceOpen() of the class, and forceCircuitBreakerOpen(name) with the timeout rt
forceOpen(c, t, rt) == [c EXCEPT !.state = "OPEN", !.nextAttempt = t + rt]

\* reset(), forceClosed(), resetCircuitBreaker(name), forceCircuitBreakerClosed(name)
closed(c) == [state |-> "CLOSED", failures |-> 0, nextAttempt |-> 0]

\* the history of failures recorded on the new breaker
RunAfter(error) ==
    IF error /\ run.n >= 0 THEN [n |-> run.n + 1, at |-> now] ELSE [n |-> -1, at |-> now]

IsOpen ==
    /\ cb' = isOpenState(cb, now)
    /\ last' = [op |-> "isOpen", result |-> isOpenResult(cb, now), pre |-> cb, at |-> now]
    /\ UNCHANGED <<now, sessVars, threshold, resetTimeout, run, calls>>

Record(error) ==
    /\ error => cb.failures < MaxFailures
    /\ cb' = record(cb, error, now, threshold, resetTimeout)
    /\ run' = RunAfter(error)
    /\ last' = [op |-> "record", error |-> error, pre |-> cb, at |-> now]
    /\ calls' = [calls EXCEPT !.trials = 0]
    /\ UNCHANGED <<now, sessVars, threshold, resetTimeout>>

\* breaker.forceOpen() and the admin forceCircuitBreakerOpen(name)
ForceOpen ==
    /\ \E rt \in {resetTimeout, CONFIG_RESET_TIMEOUT} : cb' = forceOpen(cb, now, rt)
    /\ run' = [n |-> -1, at |-> now]
    /\ last' = [op |-> "forceOpen", pre |-> cb, at |-> now]
    /\ calls' = [calls EXCEPT !.trials = 0]
    /\ UNCHANGED <<now, sessVars, threshold, resetTimeout>>

\* reset, forceClosed and their admin forms
ForceClosed ==
    /\ cb' = closed(cb)
    /\ run' = [n |-> -1, at |-> now]
    /\ last' = [op |-> "forceClosed", pre |-> cb, at |-> now]
    /\ calls' = [calls EXCEPT !.trials = 0]
    /\ UNCHANGED <<now, sessVars, threshold, resetTimeout>>

\* calls admitted by either wrapper whose outcome is not yet recorded
Pending == calls.fn + calls.mw

\* the trials counted once a call has been admitted on breaker c
trialsAfter(c) == IF c.state = "HALF_OPEN" THEN calls.trials + 1 ELSE calls.trials

\* the function withCircuitBreaker returns, up to the call of fn: an open breaker
\* throws, otherwise fn is invoked
CallBegin ==
    LET open == isOpenResult(cb, now)
        c == isOpenState(cb, now)
    IN /\ open \/ Pending < MaxCalls
       /\ cb' = c
       /\ calls' = IF open THEN calls
                   ELSE [calls EXCEPT !.fn = @ + 1, !.trials = trialsAfter(c)]
       /\ last' = [op |-> "call", wrapper |-> "fn", bypass |-> FALSE, rejected |-> open,
                   status |-> 0, pre |-> cb, pending |-> Pending, at |-> now]
       /\ UNCHANGED <<now, sessVars, threshold, resetTimeout, run>>

\* fn has returned (error FALSE) or thrown: the outcome is recorded
CallEnd(error) ==
    /\ calls.fn > 0
    /\ error => cb.failures < MaxFailures
    /\ cb' = record(cb, error, now, threshold, resetTimeout)
    /\ run' = RunAfter(error)
    /\ calls' = [calls EXCEPT !.fn = @ - 1, !.trials = 0]
    /\ last' = [op |-> "callEnd", wrapper |-> "fn", error |-> error, pre |-> cb, at |-> now]
    /\ UNCHANGED <<now, sessVars, threshold, resetTimeout>>

\* the statuses a downstream handler answers with
MwStatuses == {200, 404, 500, 502}

\* res.send as circuitBreakerMiddleware wraps it: a status >= 500 is a failure
sendRecords(c, status, t, thr, rt) == record(c, status >= 500, t, thr, rt)

\* circuitBreakerMiddleware: a path that names no service goes on unguarded; an
\* open breaker answers 503 through res.json, that is through the wrapped
\* res.send, which records the 503; otherwise next()
MwBegin(match) ==
    LET open == isOpenResult(cb, now)
        c == isOpenState(cb, now)
    IN IF ~match
       THEN /\ last' = [op |-> "mw", wrapper |-> "mw", bypass |-> TRUE, rejected |-> FALSE,
                        status |-> 0, pre |-> cb, pending |-> Pending, at |-> now]
            /\ UNCHANGED <<now, sessVars, cbVars>>
       ELSE IF open
       THEN /\ cb.failures < MaxFailures
            /\ cb' = sendRecords(c, 503, now, threshold, resetTimeout)
            /\ run' = RunAfter(TRUE)
            /\ calls' = [calls EXCEPT !.trials = 0]
            /\ last' = [op |-> "mw", wrapper |-> "mw", bypass |-> FALSE, rejected |-> TRUE,
                        status |-> 503, pre |-> cb, pending |-> Pending, at |-> now]
            /\ UNCHANGED <<now, sessVars, threshold, resetTimeout>>
       ELSE /\ Pending < MaxCalls
            /\ cb' = c
            /\ calls' = [calls EXCEPT !.mw = @ + 1, !.trials = trialsAfter(c)]
            /\ last' = [op |-> "mw", wrapper |-> "mw", bypass |-> FALSE, rejected |-> FALSE,
                        status |-> 0, pre |-> cb, pending |-> Pending, at |-> now]
            /\ UNCHANGED <<now, sessVars, threshold, resetTimeout, run>>

\* the downstream handler of an admitted request sends its response
MwSend(status) ==
    /\ calls.mw > 0
    /\ status >= 500 => cb.failures < MaxFailures
    /\ cb' = sendRecords(cb, status, now, threshold, resetTimeout)
    /\ run' = RunAfter(status >= 500)
    /\ calls' = [calls EXCEPT !.mw = @ - 1, !.trials = 0]
    /\ last' = [op |-> "mwSend", wrapper |-> "mw", error |-> (status >= 500),
                status |-> status, pre |-> cb, at |-> now]
    /\ UNCHANGED <<now, sessVars, threshold, resetTimeout>>

TickCB ==
    /\ \E d \in {1, resetTimeout} :
         /\ Advances(now + d, resetTimeout) <= MaxAdvance
         /\ now' = now + d
    /\ last' = [op |-> "tick"]
    /\ UNCHANGED <<sessVars, cbVars>>

InitCB ==
    /\ now = 0
    /\ networked = FALSE
    /\ session = [s \in Subjects |-> NoSession]
    /\ store = [s \in Subjects |-> Null]
    /\ inflight = {}
    /\ loggedIn = {}
    /\ last = [op |-> "init"]
    /\ cb = NewBreaker
    /\ threshold \in 1..MaxThreshold
    /\ resetTimeout \in ResetTimeouts
    /\ run = [n |-> 0, at |-> 0]
    /\ calls = NoCalls
    /\ app = Running

NextCB ==
    \/ IsOpen
    \/ \E error \in BOOLEAN : Record(error)
    \/ ForceOpen
    \/ ForceClosed
    \/ TickCB

SpecCB == InitCB /\ [][NextCB]_vars

\* the breaker as its wrappers and the admin operations drive it
NextWrap ==
    \/ CallBegin
    \/ \E error \in BOOLEAN : CallEnd(error)
    \/ \E match \in BOOLEAN : MwBegin(match)
    \/ \E status \in MwStatuses : MwSend(status)
    \/ ForceOpen
    \/ TickCB

SpecWrap == InitCB /\ [][NextWrap]_vars

\* the proxied routes beside the breaker registry: the requests of the session
\* side, the memory store, and a breaker that the admin operations open and close
NextGuard ==
    \/ Requests(Users)
    \/ Tick({SESSION_TTL_MS})
    \/ ForceOpen
    \/ ForceClosed

SpecGuard == InitIso /\ [][NextGuard]_vars

-----------------------------------------------------------------------------
(* Properties of the session side *)

\* item is a stored, non-expired upstream session at time t: within the store's
\* TTL and before its own expires
LiveItem(item, t) ==
    /\ item # Null
    /\ ~MemExpired(item, t)
    /\ item.value.expires > t

Live(s) == LiveItem(store[SessionKey(s)], now)

\* C1: a proxied request that finds no non-expired upstream session for its
\* subject when it is processed -- at the ensureQuentryAuth check or, after a
\* concurrent logout or expiry, at the lookup of the proxy hook -- is answered
\* 401 and nothing is sent to the upstream service.
C1_NoSessionNoUpstreamCall ==
    (last.op = "proxy" /\ last.seen # "NoIdentity" /\ ~LiveItem(last.had, now))
        => (last.status = 401 /\ ~last.sent)

\* C2: an upstream session stored for a subject implies that the subject's
\* identity session still exists (destroying the identity session deletes it).
C2_UpstreamImpliesIdentity ==
    \A s \in Subjects : Live(s) => session[s] # NoSession

\* C3: a read (status, proxy check) made later than the expires field of the
\* stored session reports Expired, not Absent, and deletes the session.
C3_LateReadReportsExpired ==
    (/\ last.op \in {"status", "proxy"}
     /\ last.seen # "NoIdentity"
     /\ ~last.getFailed
     /\ last.had # Null
     /\ last.had.value.expires < now)
        => (last.seen = "Expired" /\ store[SessionKey(last.subj)] = Null)

C6_LogoutTwice ==
    (last.op = "logout" /\ last.second)
        => /\ last.status = 200
           /\ last.had = Null
           /\ store[SessionKey(last.subj)] = Null

\* C7: once logout has answered 200 {success: true} no upstream session is
\* stored for the subject, and no proxied request of the subject goes to the
\* upstream service while none is stored.
C7_LogoutLeavesNoSession ==
    /\ (last.op = "logout" /\ last.status = 200)
           => store[SessionKey(last.subj)] = Null
    /\ (last.op = "proxy" /\ last.sent) => LiveItem(last.had, now)

-----------------------------------------------------------------------------
(* Properties of the circuit breaker *)

\* C8: on a new breaker with threshold T, after n <= T recorded failures, no
\* success in between and less than resetTimeout since the last of them,
\* isOpen() returns false while n < T and true once n = T.
C8_OpensAtThreshold ==
    (/\ last.op = "isOpen"
     /\ run.n >= 0 /\ run.n <= threshold
     /\ now - run.at < resetTimeout)
        => (last.result = (run.n = threshold))

C8_Witness ==
    /\ last.op = "isOpen" /\ last.result
    /\ threshold >= 2 /\ run.n = threshold
    /\ now > run.at

\* C9: the isOpen() check of an OPEN breaker made after the clock has passed
\* nextAttempt returns false and leaves the breaker HALF_OPEN; a success
\* recorded on a HALF_OPEN breaker leaves it CLOSED with failure counter 0.
C9_HalfOpenThenClosed ==
    /\ (last.op = "isOpen" /\ last.pre.state = "OPEN" /\ last.at > last.pre.nextAttempt)
           => (~last.result /\ cb.state = "HALF_OPEN")
    /\ (last.op = "record" /\ ~last.error /\ last.pre.state = "HALF_OPEN")
           => (cb.state = "CLOSED" /\ cb.failures = 0)

C9_Witness ==
    /\ last.op = "record" /\ ~last.error
    /\ last.pre.state = "HALF_OPEN" /\ last.pre.failures >= 2
    /\ cb.state = "CLOSED"

\* C10: a failure recorded on a HALF_OPEN breaker leaves it OPEN, with the
\* failure counter it had and nextAttempt = now + resetTimeout.
C10_HalfOpenFailureReopens ==
    (last.op = "record" /\ last.error /\ last.pre.state = "HALF_OPEN")
        => /\ cb.state = "OPEN"
           /\ cb.failures = last.pre.failures
           /\ cb.nextAttempt = last.at + resetTimeout

\* C11: while the breaker is HALF_OPEN at most one call has been admitted whose
\* outcome is not yet recorded: the trial; every other call checking the breaker
\* is rejected.
C11_OneTrial ==
    cb.state = "HALF_OPEN" => calls.trials <= 1

C13_OpenBreakerBlocksProxy ==
    (last.op = "proxy" /\ last.arrivedOpen) => ~last.sent

\* C14: after every request the proxy forwards, exactly one outcome is recorded
\* in the upstream's breaker: a failure for a status >= 500 or a transport
\* error, a success otherwise.
C14_ForwardRecordsOutcome ==
    (last.op = "proxy" /\ last.sent)
        => cb = record(last.cbPre, last.upstream \in {"5xx", "transport"},
                       last.at, threshold, resetTimeout)

\* C15: if initializeRedis cannot reach the networked store, then whatever the
\* environment and the configured session store, the application goes on
\* running and getRedis() returns the memory store from then on.
C15_UnreachableFallsBack ==
    app.unreached => (app.phase = "running" /\ app.alive /\ ~networked)

C15_Witness ==
    /\ app.unreached
    /\ last.op = "initialize" /\ last.threw
    /\ last.env = "production" /\ last.storeCfg = "redis"

\* C16: with the networked store a failing get returns null and a failing del
\* returns normally (no error reaches the caller), and a failing set throws.
C16_StoreFailures ==
    (networked /\ last.op \in {"get", "set", "del"} /\ last.fail)
        => /\ last.op = "get" => (last.value = Null /\ ~last.threw)
           /\ last.op = "del" => ~last.threw
           /\ last.op = "set" => last.threw

C16_Witness ==
    /\ networked /\ last.op = "get" /\ last.fail
    /\ LiveItem(last.had, now) /\ last.value = Null

\* C17: a login whose session-store write fails ends with an error response,
\* never with success.
C17_FailedWriteFailsLogin ==
    (last.op = "login" /\ last.stage = "recv" /\ last.setFailed)
        => (last.status # 200 /\ last.status >= 400)

C17_Witness ==
    /\ last.op = "login" /\ last.stage = "recv" /\ last.setFailed
    /\ last.status = 500 /\ last.had = Null /\ store[SessionKey(last.subj)] = Null

\* C18: an upstream answer whose payload (the nested data object if there is
\* one, else the body) holds no token, whatever its status, 200 included, makes
\* the login an authentication failure, and no session is written.
C18_NoTokenNoSession ==
    (/\ last.op = "login" /\ last.stage = "recv"
     /\ last.kind \in {"ok", "error"}
     /\ (IF last.body.data # Null THEN last.body.data ELSE last.body).token = NoToken)
        => /\ last.status >= 400
           /\ last.error \in {NO_TOKEN_ERROR, CATCH_ERROR}
           /\ store[SessionKey(last.subj)] = last.had

C18_Witness ==
    /\ last.op = "login" /\ last.stage = "recv"
    /\ last.kind = "ok" /\ last.upstatus = 200
    /\ last.body.data # Null /\ last.body.data.token = NoToken
    /\ last.body.token # NoToken
    /\ last.status = 401 /\ last.had = Null

\* C19: every failed upstream authentication at login (rejected credentials,
\* missing token, upstream error status, transport error) is answered 401 with
\* the one invalid-credentials message, whatever the upstream's status and text.
C19_FailuresNormalized ==
    (/\ last.op = "login" /\ last.stage = "recv"
     /\ (last.kind # "ok"
           \/ (IF last.body.data # Null THEN last.body.data ELSE last.body).token = NoToken))
        => /\ last.status = 401
           /\ last.error = NO_TOKEN_ERROR
           /\ last.message = ""

C24_NoSilentRenewal ==
    /\ (last.op \in {"status", "proxy", "proxyCheck"})
           => (store[SessionKey(last.subj)] = Null
               \/ store[SessionKey(last.subj)] = last.had)
    /\ ~(/\ last.op = "proxy" /\ last.sent
         /\ last.had # Null /\ last.had.value.expires < now)

\* C25: after a login that failed upstream authentication no upstream session
\* is stored for the subject (one stored by an earlier login is deleted).
C25_FailedLoginClearsSession ==
    (/\ last.op = "login" /\ last.stage = "recv"
     /\ (last.kind # "ok" \/ extractPayload(last.body).token = NoToken))
        => store[SessionKey(last.subj)] = Null

\* C26: every request the proxy sends upstream carries the Authorization header
\* built from the token of the subject's stored, non-expired session, and the
\* Cookie header: the hook's lookup has set them before the request leaves.
C26_SentWithStoredToken ==
    (last.op = "proxy" /\ last.sent)
        => /\ LiveItem(last.had, now)
           /\ last.auth = last.had.value.token
           /\ last.cookie

\* C27: when the logins of one subject, two in flight together among them,
\* have all finished, the stored session is, field for field, what the last
\* completed set wrote: the record of the login that finished last if its set
\* succeeded, else what was stored before it.
C27_LastSetWins ==
    (/\ last.op = "login" /\ last.stage = "recv"
     /\ LoginsInFlight(last.subj) = {})
        => store[SessionKey(last.subj)] =
              IF last.status = 200
              THEN [value |-> [token |-> last.token,
                               expires |-> last.at + SESSION_TTL_MS],
                    expiry |-> last.at + STORE_TTL_S * 1000]
              ELSE last.had

C27_Witness ==
    /\ last.op = "login" /\ last.stage = "recv" /\ last.rival
    /\ LoginsInFlight(last.subj) = {}
    /\ last.status = 200 /\ last.had # Null
    /\ last.had.value.token # last.token
    /\ last.had.value.expires < last.at + SESSION_TTL_MS

\* C28: failures recorded on a CLOSED breaker, with calls of both wrappers in
\* flight together, are all counted: after k failures in a row on a new breaker,
\* k below the threshold, the counter is k and the breaker CLOSED; and a
\* failure recorded on a CLOSED breaker whose counter c has c + 1 below the
\* threshold leaves the counter at c + 1.
C28_FailuresCounted ==
    /\ (run.n >= 0 /\ run.n < threshold)
           => (cb.state = "CLOSED" /\ cb.failures = run.n)
    /\ (/\ last.op \in {"callEnd", "mwSend"} /\ last.error
        /\ last.pre.state = "CLOSED" /\ last.pre.failures + 1 < threshold)
           => (cb.state = "CLOSED" /\ cb.failures = last.pre.failures + 1)

C28_Witness ==
    /\ last.op \in {"callEnd", "mwSend"} /\ last.error
    /\ last.pre.state = "CLOSED" /\ last.pre.failures = 1
    /\ run.n = 2 /\ cb.failures = 2 /\ cb.state = "CLOSED"
    /\ Pending > 0

\* C30: a success recorded on a CLOSED breaker leaves it CLOSED with the counter
\* at max(0, counter - 1), and the counter is never negative.
C30_SuccessCountsDown ==
    /\ cb.failures >= 0
    /\ (last.op = "record" /\ ~last.error /\ last.pre.state = "CLOSED")
           => /\ cb.state = "CLOSED"
              /\ cb.failures = IF last.pre.failures >= 1 THEN last.pre.failures - 1 ELSE 0

C30_Witness ==
    /\ last.op = "record" /\ ~last.error
    /\ last.pre.state = "CLOSED" /\ last.pre.failures = 0
    /\ cb.failures = 0

\* C29: a login or a proxied request that has gone to the upstream ends with
\* an answer to the client: whenever requests are in flight, later none is.
C29_OutboundCallsEnd ==
    \A s \in Users :
        (\E q \in inflight : q.subj = s) ~> ~(\E q \in inflight : q.subj = s)

\* C31: every step that takes the breaker into CLOSED from another state, and
\* every reset or forceClosed, leaves the failure counter at 0.
C31_ClosingResets ==
    /\ (/\ last.op \in {"isOpen", "record", "forceOpen", "forceClosed"}
        /\ last.pre.state # "CLOSED" /\ cb.state = "CLOSED")
           => cb.failures = 0
    /\ last.op = "forceClosed" => (cb.state = "CLOSED" /\ cb.failures = 0)

C31_Witness ==
    /\ last.op = "record" /\ ~last.error
    /\ last.pre.state = "HALF_OPEN" /\ last.pre.failures > 0
    /\ cb.state = "CLOSED" /\ cb.failures = 0

\* C32: in the memory store a value written by set(key, v, t) at time s, for
\* any t >= 0, is what get returns at s and at s + t seconds, and one
\* millisecond later get returns null and removes the entry; and a get over an
\* entry past its expiry returns null and leaves no entry.
C32_TtlBoundsReads ==
    /\ (~networked /\ last.op = "set" /\ ~last.threw)
           => LET due == last.at + last.ttl * 1000
              IN /\ MemGet(store, last.key, last.at).value = last.value
                 /\ MemGet(store, last.key, due).value = last.value
                 /\ MemGet(store, last.key, due + 1).value = Null
                 /\ MemGet(store, last.key, due + 1).store[last.key] = Null
    /\ (~networked /\ last.op = "get" /\ last.had # Null /\ last.had.expiry # -1)
           => IF last.had.expiry < now
              THEN last.value = Null /\ store[last.key] = Null
              ELSE last.value = last.had.value /\ store[last.key] = last.had

\* C33: the token of a login is the nested payload's whenever the body has a
\* nested payload, also when a top-level token exists, and a nested payload
\* without a token fails the login whatever the top level holds; the top-level
\* token is the one used exactly when the body has no nested payload.
C33_NestedPayloadFirst ==
    (last.op = "login" /\ last.stage = "recv" /\ last.kind = "ok")
        => /\ last.body.data # Null
                => IF last.body.data.token = NoToken
                   THEN last.status = 401 /\ last.token = NoToken
                   ELSE last.status \in {200, 500}
                        /\ (last.status = 200 =>
                               /\ last.token = last.body.data.token
                               /\ store[SessionKey(last.subj)].value.token
                                      = last.body.data.token)
           /\ last.body.data = Null
                => IF last.body.token = NoToken
                   THEN last.status = 401 /\ last.token = NoToken
                   ELSE last.status \in {200, 500}
                        /\ (last.status = 200 =>
                               /\ last.token = last.body.token
                               /\ store[SessionKey(last.subj)].value.token
                                      = last.body.token)

C33_Witness ==
    /\ last.op = "login" /\ last.stage = "recv" /\ last.kind = "ok"
    /\ last.body.data # Null
    /\ last.body.data.token = "EU_a" /\ last.body.token = "EU_b"
    /\ last.status = 200 /\ last.token = "EU_a"

\* C34: a request rejected because the breaker is open leaves the breaker as
\* it was: state, failure counter and nextAttempt.
C34_RejectionKeepsBreaker ==
    (last.op \in {"call", "mw"} /\ last.rejected) => cb = last.pre

C36_CleanupSparesFresh ==
    (last.op = "statusDel" /\ last.had # Null /\ last.had.value.expires > now)
        => store[SessionKey(last.subj)] = last.had

\* C38: a success recorded on an OPEN breaker changes nothing, and the breaker
\* leaves OPEN only to HALF_OPEN by an isOpen() made after nextAttempt, or by
\* reset or forceClosed.
C38_OpenIgnoresSuccess ==
    /\ (last.op = "record" /\ ~last.error /\ last.pre.state = "OPEN") => cb = last.pre
    /\ (/\ last.op \in {"isOpen", "record", "forceOpen", "forceClosed"}
        /\ last.pre.state = "OPEN" /\ cb.state # "OPEN")
           => \/ /\ last.op = "isOpen" /\ last.at > last.pre.nextAttempt
                 /\ cb.state = "HALF_OPEN"
              \/ last.op = "forceClosed"

C38_Witness ==
    /\ last.op = "record" /\ ~last.error
    /\ last.pre.state = "OPEN" /\ last.pre.failures > 0
    /\ cb = last.pre

-----------------------------------------------------------------------------
(* Properties of the identity session *)

\* C37: a token refresh that finishes when the identity session is absent (a
\* logout destroyed it while the refresh waited) leaves it absent.
C37_LogoutStaysLoggedOut ==
    (last.op = "refreshEnd" /\ last.pre = NoSession)
        => session[last.subj] = NoSession

\* C39: a callback puts user and tokens in the session only when its state
\* parameter is there and equals the state stored in the session at login
\* initiation.
C39_StateMustMatch ==
    (last.op = "authCallback" /\ last.established)
        => (last.state # NoState /\ last.state = last.sessionState)

\* C21: when the access token is expired or within the lookahead and the
\* refresh exchange fails (in ensureValidToken or at POST /auth/refresh), the
\* identity session is destroyed, the answer is 401, the protected handler does
\* not run and the exchange was tried once.
C21_FailedRefreshDestroys ==
    (/\ last.op \in {"protected", "refresh"}
     /\ last.pre.user /\ last.pre.refreshToken
     /\ (last.op = "refresh"
           \/ last.pre.expiresAt - REFRESH_LOOKAHEAD_S <= NowS(last.at))
     /\ ~last.refreshOk)
        => /\ session[last.subj] = NoSession
           /\ last.status = 401
           /\ ~last.ran
           /\ last.refreshes = 1

C21_Witness ==
    /\ last.op = "protected" /\ last.pre.user /\ last.pre.refreshToken
    /\ last.pre.expiresAt - REFRESH_LOOKAHEAD_S = NowS(last.at)
    /\ ~last.refreshOk /\ session[last.subj] = NoSession

\* C22: a request whose access token is expired and whose session holds no
\* refresh token is rejected and does not reach the protected handler.
C22_ExpiredWithoutRefreshRejected ==
    (/\ last.op = "protected"
     /\ last.pre.user /\ ~last.pre.refreshToken
     /\ last.pre.expiresAt <= NowS(last.at))
        => (~last.ran /\ last.status = 401)

\* C23: in whole seconds, the token status is expired when the remaining
\* lifetime is <= 0, expiring_soon exactly when it is > 0 and < 300, and valid
\* otherwise.
C23_TokenStatus ==
    (last.op = "authStatus" /\ last.pre.user /\ last.pre.expiresAt # 0)
        => LET remaining == last.pre.expiresAt - NowS(last.at)
           IN last.tokenStatus = IF remaining <= 0 THEN "expired"
                                 ELSE IF remaining < 300 THEN "expiring_soon"
                                 ELSE "valid"

====
